---- MODULE Spec2Model ----
(***************************************************************************)
(* The three programs of the repository.  First and at greatest length the *)
(* thread-pool / process-pool Fibonacci benchmark of                       *)
(* src/concu_vs_parall_with_patters.py (src/concu_vs_parall.py is its      *)
(* naive-only subset): main() runs four strategy/variant combinations one  *)
(* after the other over the same input list, each inside measure_time.     *)
(*                                                                         *)
(* Library behaviour the code relies on, modelled at the calls:            *)
(*   executor.map   submits one future per input in input order and        *)
(*                  yields the futures' results in submission order; when  *)
(*                  a result raises, the remaining futures are cancelled;  *)
(*   with executor  __exit__ is shutdown(wait=True): the call leaves the   *)
(*                  block only after every worker has exited;              *)
(*   lru_cache      lookup and store are each atomic, the wrapped call     *)
(*                  between them runs unlocked;                            *)
(*   recursion      a call deeper than the interpreter's recursion limit   *)
(*                  raises RecursionError.                                 *)
(*                                                                         *)
(* Then the undo/redo logic of the drawing app, src/draw.py, and the       *)
(* reaction game, src/reaction_game.py: both are Tk programs, whose        *)
(* handlers run one at a time, each to its end, on the main loop.  Every   *)
(* specification below runs one program; the other two stay as they are    *)
(* before they are started.                                                *)
(***************************************************************************)
EXTENDS Integers, Sequences, FiniteSets, TLC

\* ---------------------------------------------------------------- bounds
\* Longest input list.
MaxLen == 3
\* Largest ordinary input value.
MaxN == 3
\* Size of a pool (ThreadPoolExecutor() / ProcessPoolExecutor() take the
\* host's default).
MaxWorkers == 2
\* The interpreter's recursion limit (1000 by default), scaled down.
RecursionLimit == 4

\* An input too deep for the recursion limit whatever the cache holds
\* (999999 against the limit of 1000).
Big == 2 * RecursionLimit + MaxN

\* Scenario 2 of the specification, [10,10,10], scaled to the bounds.
Scenario2 == <<MaxN, MaxN, MaxN>>

\* Scenario 3 of the specification: an input below 0.
Scenario3 == <<-1>>

\* The inputs of the other lists: the smallest and the largest ordinary
\* input, and the one that is too deep.
Inputs == {0, MaxN, Big}

SeqsUpTo(S, k) == UNION {[1..m -> S] : m \in 0..k}

Workloads == SeqsUpTo(Inputs, MaxLen) \cup {Scenario3}

Workers == 1..MaxWorkers

Min(a, b) == IF a < b THEN a ELSE b

\* ------------------------------------------------------------ exceptions
\* An exception object: its type and the task data it carries.
NoException == [type |-> "none", info |-> {}]

\* RecursionError("maximum recursion depth exceeded"): it names neither the
\* task's index nor its input.
RecursionError == [type |-> "RecursionError", info |-> {}]

\* BrokenProcessPool: what every unfinished future of a process pool gets
\* when one of the pool's processes dies.
BrokenProcessPool == [type |-> "BrokenProcessPool", info |-> {}]

Ok(v) == [exc |-> NoException, val |-> v]

Raised(e) == [exc |-> e, val |-> 0]

\* ------------------------------------------------------ compute function
\* The base case of both variants: if n <= 1: return n.
BaseValue(n) == n

\* The recursive case of both variants: f(n - 1) + f(n - 2).
Combine(a, b) == a + b

\* fibonacci_naive(n), entered at recursion depth `depth`: its value, or the
\* RecursionError of the first call that is too deep.
RECURSIVE fibonacci_naive(_, _)
fibonacci_naive(n, depth) ==
    IF depth > RecursionLimit THEN Raised(RecursionError)
    ELSE IF n <= 1 THEN Ok(BaseValue(n))
    ELSE LET a == fibonacci_naive(n - 1, depth + 1)
         IN  IF a.exc # NoException THEN a
             ELSE LET b == fibonacci_naive(n - 2, depth + 1)
                  IN  IF b.exc # NoException THEN b
                      ELSE Ok(Combine(a.val, b.val))

\* F(0)=0, F(1)=1, F(n)=F(n-1)+F(n-2), by iteration (the oracle of the
\* specification's section 8); n itself below 0, as both variants return.
RECURSIVE FibIter(_, _, _)
FibIter(k, a, b) == IF k = 0 THEN a ELSE FibIter(k - 1, b, a + b)

Fib(n) == IF n <= 1 THEN n ELSE FibIter(n, 0, 1)

\* ------------------------------------------------------------ the session
\* main(): four runs, in this order.
NumRuns == 4

Strategy(r) == IF r <= 2 THEN "thread" ELSE "process"

Memo(r) == r \in {2, 4}

EmptyCache == [k \in {} |-> 0]

VARIABLES
    fib_numbers,   \* main's input list
    startMethod,   \* how worker processes are started: "fork" | "spawn",
                   \* "unset" until the first process pool is created
    run,           \* the run main is in (0 before the first)
    phase,         \* "ready" | "collect" | "joining" | "done" | "crashed"
    futures,       \* the futures executor.map created, in submission order
    workers,       \* the pool's workers
    cache,         \* fibonacci_memo's lru_cache in the parent process
    collected,     \* the results list() has consumed so far
    raised,        \* the exception propagating in the main thread
    outcome,       \* what the decorated call of the current run gave main
    stdout         \* what the current run has printed

\* ------------------------------------------------- src/draw.py: its state
\* Longest run of canvas items the app creates.
MaxItems == 3
\* Largest mouse coordinate.
MaxCoord == 1

Coords == 0..MaxCoord

\* Python's None, and a value that is not None.
None == <<>>

Some(v) == <<v>>

VARIABLES
    last_x,                    \* None, or where the mouse was last seen with
                               \* the button down (last_y is set and cleared
                               \* with it)
    current_stroke_item_ids,   \* the line items of the stroke in progress
    undo_stack,                \* strokes (lists of item ids), newest last
    redo_stack,                \* strokes undone, newest last
    canvas                     \* the canvas items' state option, by item id

drawVars == <<last_x, current_stroke_item_ids, undo_stack, redo_stack, canvas>>

\* DrawingApp.__init__ (the canvas starts without items).
DrawingAppInit ==
    /\ last_x = None
    /\ current_stroke_item_ids = <<>>
    /\ undo_stack = <<>>
    /\ redo_stack = <<>>
    /\ canvas = <<>>

\* ---------------------------------------- src/reaction_game.py: its state
\* The lights of level 1 (10 in the code) and what each level adds (5),
\* scaled down.
LightsPerLevel == 2
LightsIncrement == 1
\* The keys of the game (8 in the code: a s d f j k l ;), scaled down.
NumKeys == 2
\* Highest level played.
MaxLevel == 2

\* Indices of the key buttons.
Keys == 0..(NumKeys - 1)

TimerCallbacks == {"light_next_key", "reset_key"}

VARIABLES
    level,
    sequence_length,
    sequence,            \* the keys to light, sequence[i + 1] for Python's [i]
    current_index,
    is_game_running,
    waiting_for_click,
    key_buttons,         \* bg of each key button, key_buttons[i + 1] for [i]
    info_label,          \* text of the info label, with the level it names
    next_level_button,   \* state of the Next Level button
    timers,              \* callbacks scheduled with master.after, not yet run
    lit,                 \* history: the keys lit in this level, in order
    answered             \* history: the presses accepted in this level

gameVars == <<level, sequence_length, sequence, current_index, is_game_running,
              waiting_for_click, key_buttons, info_label, next_level_button,
              timers, lit, answered>>

\* ReactionGame.__init__.
ReactionGameInit ==
    /\ level = 1
    /\ sequence_length = 0
    /\ sequence = <<>>
    /\ current_index = 0
    /\ is_game_running = FALSE
    /\ waiting_for_click = FALSE
    /\ key_buttons = [i \in 1..NumKeys |-> "gray"]
    /\ info_label = [text |-> "Press 'Start' to begin!", level |-> 0]
    /\ next_level_button = "disabled"
    /\ timers = [c \in TimerCallbacks |-> 0]
    /\ lit = <<>>
    /\ answered = <<>>

\* The two Tk programs, which share nothing with the benchmark.
tkVars == <<drawVars, gameVars>>

\* ------------------------------------------------- the benchmark's state
benchVars == <<fib_numbers, startMethod, run, phase, futures, workers, cache,
               collected, raised, outcome, stdout>>

vars == <<benchVars, tkVars>>

\* The decorated call has not returned yet.
NoOutcome == [status |-> "none", results |-> <<>>, error |-> NoException]

NotStarted == [status |-> "notstarted", task |-> 0, stack |-> <<>>,
               cache |-> EmptyCache, own |-> {}]

Init ==
    /\ fib_numbers \in Workloads
    /\ startMethod = "unset"
    /\ run = 0
    /\ phase = "ready"
    /\ futures = <<>>
    /\ workers = [w \in Workers |-> NotStarted]
    /\ cache = EmptyCache
    /\ collected = <<>>
    /\ raised = NoException
    /\ outcome = NoOutcome
    /\ stdout = <<>>
    /\ DrawingAppInit
    /\ ReactionGameInit

\* ------------------------------------------------------------- the pools
\* The start methods a host may have as its default; ProcessPoolExecutor()
\* fixes the host's for the session when the first pool is created.
StartMethods == {"fork", "spawn"}

\* The cache a worker process starts with under start method m: a forked
\* child holds a copy of the parent's module state, fibonacci_memo's cache
\* included; a spawned child imports the module anew.
InheritedCache(m) == IF m = "fork" THEN cache ELSE EmptyCache

\* (A cache per worker thread instead of the one the threads share.)
CacheOfPrivate(w) == workers[w].cache

\* The cache fibonacci_memo reads and writes when worker w calls it: the
\* parent's in a thread, the process's own in a worker process.
CacheOf(w) == IF Strategy(run) = "thread" THEN cache ELSE workers[w].cache

NewFuture(n) == [state |-> "pending", n |-> n, value |-> 0,
                 exc |-> NoException, hit |-> FALSE, late |-> FALSE, by |-> 0]

NewWorker(r, m) == [status |-> "idle", task |-> 0, stack |-> <<>>,
                    cache |-> IF Strategy(r) = "process" THEN InheritedCache(m)
                              ELSE EmptyCache,
                    own |-> {}]

Pending == {i \in 1..Len(futures) : futures[i].state = "pending"}

\* Calls a process pool holds in its call queue beyond the running ones
\* (max_workers + EXTRA_QUEUED_CALLS): their futures cannot be cancelled.
CallQueueSize == MaxWorkers + 1

\* The first k pending futures, in submission order.
FirstPending(k) == {i \in Pending : Cardinality({j \in Pending : j < i}) < k}

\* main prints the run's header and calls the decorated strategy:
\* measure_time takes start_time, the strategy creates its executor and
\* executor.map submits every input, starting workers as it goes.
MainCall ==
    /\ phase = "ready"
    /\ run < NumRuns
    /\ run' = run + 1
    /\ stdout' = <<"header">>
    /\ outcome' = NoOutcome
    /\ futures' = [i \in 1..Len(fib_numbers) |-> NewFuture(fib_numbers[i])]
    /\ startMethod' \in IF Strategy(run + 1) = "thread" \/ startMethod # "unset"
                         THEN {startMethod} ELSE StartMethods
    /\ workers' = [w \in Workers |->
                      IF w <= Min(Len(fib_numbers), MaxWorkers)
                      THEN NewWorker(run + 1, startMethod') ELSE NotStarted]
    /\ collected' = <<>>
    /\ phase' = IF Len(fib_numbers) = 0 THEN "joining" ELSE "collect"
    /\ UNCHANGED <<fib_numbers, cache, raised>>
    /\ UNCHANGED tkVars

\* Workers of a pool in the same state are interchangeable (idle threads
\* always are; idle worker processes are when their caches are equal): w is
\* the first of those in its state.
FirstOfItsKind(w) == \A v \in Workers : v < w => workers[v] # workers[w]

\* An idle worker takes the oldest call still queued: any idle worker may,
\* and of interchangeable ones the first does.
WorkerTake(w) ==
    /\ phase \in {"collect", "joining"}
    /\ workers[w].status = "idle"
    /\ Pending # {}
    /\ FirstOfItsKind(w)
    /\ LET i == CHOOSE j \in Pending : \A k \in Pending : j <= k
       IN  /\ futures' = [futures EXCEPT
                  ![i].state = "running",
                  ![i].by = IF Strategy(run) = "process" THEN w ELSE 0]
           /\ workers' = [workers EXCEPT
                  ![w].status = "busy",
                  ![w].task = i,
                  ![w].stack = IF Memo(run)
                               THEN <<[n |-> futures[i].n, pc |-> "lookup", acc |-> 0]>>
                               ELSE <<>>]
    /\ UNCHANGED <<fib_numbers, startMethod, run, phase, cache, collected,
                   raised, outcome, stdout>>
    /\ UNCHANGED tkVars

\* (A worker that dies with its exception instead of sending it back: the
\* future of a failed call stays running.)
FinishDropsFailure(fs, w, r) ==
    IF r.exc # NoException THEN fs
    ELSE [fs EXCEPT ![workers[w].task].state = "finished",
                    ![workers[w].task].value = r.val]

\* The future of worker w's call, set to the call's result or exception.
Finish(fs, w, r) ==
    [fs EXCEPT ![workers[w].task].state = "finished",
               ![workers[w].task].value = r.val,
               ![workers[w].task].exc = r.exc]

\* A worker runs fibonacci_naive on its input: it shares nothing.
NaiveRun(w) ==
    /\ workers[w].status = "busy"
    /\ ~Memo(run)
    /\ futures' = Finish(futures, w, fibonacci_naive(futures[workers[w].task].n, 1))
    /\ workers' = [workers EXCEPT ![w].status = "idle", ![w].task = 0]
    /\ UNCHANGED <<fib_numbers, startMethod, run, phase, cache, collected,
                   raised, outcome, stdout>>
    /\ UNCHANGED tkVars

\* A worker process dies inside its call (killed by the host, out of
\* memory): the pool's manager thread marks the pool broken, gives every
\* future that has not finished BrokenProcessPool and terminates the pool's
\* other processes.
WorkerCrash(w) ==
    /\ Strategy(run) = "process"
    /\ workers[w].status = "busy"
    /\ futures' = [i \in 1..Len(futures) |->
                      IF futures[i].state \in {"pending", "running"}
                      THEN [futures[i] EXCEPT !.state = "finished",
                                              !.exc = BrokenProcessPool]
                      ELSE futures[i]]
    /\ workers' = [v \in Workers |->
                      IF workers[v].status = "notstarted" THEN workers[v]
                      ELSE [workers[v] EXCEPT !.status = "exited", !.task = 0,
                                              !.stack = <<>>]]
    /\ UNCHANGED <<fib_numbers, startMethod, run, phase, cache, collected,
                   raised, outcome, stdout>>
    /\ UNCHANGED tkVars

\* ------------------------------------------------------- fibonacci_memo
\* A worker's call stack holds one frame per fibonacci_memo call in
\* progress: "lookup" (the lru_cache wrapper is about to look n up), "call1"
\* and "call2" (the body waits for fibonacci_memo(n - 1), fibonacci_memo(n - 2)),
\* "store" (the body has returned acc, the wrapper is about to store it).
Top(st) == st[Len(st)]

\* (The result stored under the key of the call's first operand.)
PutShifted(c, k, v) == ((k - 1) :> v) @@ c

\* (A store that replaces the dictionary: the other keys' entries are lost.)
PutAlone(c, k, v) == (k :> v)

\* (A store that writes one more than the result the call returns.)
PutOffByOne(c, k, v) == (k :> (v + 1)) @@ c

\* lru_cache's store: cache[n] = result, the last write winning.
Put(c, k, v) == (k :> v) @@ c

\* The caller's frame takes the value v of the call it waited for: after the
\* first call it calls fibonacci_memo(n - 2), after the second it returns the sum.
Resume(rest, v) ==
    LET c == Top(rest)
    IN  IF c.pc = "call1"
        THEN Append([rest EXCEPT ![Len(rest)] = [c EXCEPT !.pc = "call2", !.acc = v]],
                    [n |-> c.n - 2, pc |-> "lookup", acc |-> 0])
        ELSE [rest EXCEPT ![Len(rest)] =
                 [c EXCEPT !.pc = "store", !.acc = Combine(c.acc, v)]]

\* Worker wk after its innermost call returned v: the outermost call ends the
\* task.
AfterReturn(wk, v) ==
    LET rest == SubSeq(wk.stack, 1, Len(wk.stack) - 1)
    IN  IF rest = <<>>
        THEN [wk EXCEPT !.status = "idle", !.task = 0, !.stack = <<>>]
        ELSE [wk EXCEPT !.stack = Resume(rest, v)]

\* One step of worker wk inside fibonacci_memo on cache c: the worker and the
\* cache after it, whether the task is over, and then its result.
\* At "lookup" the lru_cache wrapper looks n up: a hit returns the stored
\* value; a miss calls the body, which raises RecursionError when it is too
\* deep, returns n when n <= 1, and calls fibonacci_memo(n - 1) otherwise.
\* At "store" the wrapper stores the body's result under n and returns it.
MemoStep(wk, c) ==
    LET top == Top(wk.stack)
        outer == Len(wk.stack) = 1
    IN  IF top.pc = "store"
        THEN [wk |-> [AfterReturn(wk, top.acc) EXCEPT !.own = @ \cup {top.n}],
              cache |-> Put(c, top.n, top.acc),
              over |-> outer, res |-> Ok(top.acc)]
        ELSE IF top.n \in DOMAIN c
        THEN [wk |-> AfterReturn(wk, c[top.n]), cache |-> c,
              over |-> outer, res |-> Ok(c[top.n])]
        ELSE IF Len(wk.stack) > RecursionLimit
        THEN [wk |-> [wk EXCEPT !.status = "idle", !.task = 0, !.stack = <<>>],
              cache |-> c, over |-> TRUE, res |-> Raised(RecursionError)]
        ELSE IF top.n <= 1
        THEN [wk |-> [wk EXCEPT !.stack[Len(wk.stack)] =
                         [top EXCEPT !.pc = "store", !.acc = BaseValue(top.n)]],
              cache |-> c, over |-> FALSE, res |-> Ok(0)]
        ELSE [wk |-> [wk EXCEPT !.stack =
                         Append([wk.stack EXCEPT ![Len(wk.stack)].pc = "call1"],
                                [n |-> top.n - 1, pc |-> "lookup", acc |-> 0])],
              cache |-> c, over |-> FALSE, res |-> Ok(0)]

\* The steps of a task from wk on cache c to the task's end.
RECURSIVE MemoRun(_, _)
MemoRun(wk, c) ==
    CHOOSE r \in {IF s.over THEN s ELSE MemoRun(s.wk, s.cache) :
                      s \in {MemoStep(wk, c)}} : TRUE

\* The futures once worker w's task has looked its input up for the first
\* time in cache c: whether that was a hit, and whether another task of the
\* run had already finished by then.
FirstLookup(w, c) ==
    [futures EXCEPT
        ![workers[w].task].hit = futures[workers[w].task].n \in DOMAIN c,
        ![workers[w].task].late =
            \E j \in 1..Len(futures) :
                futures[j].state = "finished" /\ futures[j].exc = NoException]

\* A worker thread takes one step inside fibonacci_memo on the cache the
\* threads share: other threads run between a call's lookup and its store.
MemoThreadStep(w, pc) ==
    /\ workers[w].status = "busy"
    /\ Memo(run)
    /\ Strategy(run) = "thread"
    /\ Top(workers[w].stack).pc = pc
    /\ LET s == MemoStep(workers[w], CacheOf(w))
           seen == IF pc = "lookup" /\ Len(workers[w].stack) = 1
                   THEN FirstLookup(w, CacheOf(w)) ELSE futures
       IN  /\ workers' = [workers EXCEPT ![w] = [s.wk EXCEPT !.own = {}]]
           /\ cache' = s.cache
           /\ futures' = IF s.over THEN Finish(seen, w, s.res) ELSE seen
    /\ UNCHANGED <<fib_numbers, startMethod, run, phase, collected, raised,
                   outcome, stdout>>
    /\ UNCHANGED tkVars

MemoLookup(w) == MemoThreadStep(w, "lookup")

MemoStore(w) == MemoThreadStep(w, "store")

\* A worker process runs fibonacci_memo on its input against its own cache:
\* it shares no memory, so nothing outside sees the call before its result.
MemoCall(w) ==
    /\ workers[w].status = "busy"
    /\ Memo(run)
    /\ Strategy(run) = "process"
    /\ LET s == MemoRun(workers[w], CacheOf(w))
       IN  /\ workers' = [workers EXCEPT ![w] = [s.wk EXCEPT !.cache = s.cache]]
           /\ futures' = Finish(FirstLookup(w, CacheOf(w)), w, s.res)
    /\ UNCHANGED <<fib_numbers, startMethod, run, phase, cache, collected,
                   raised, outcome, stdout>>
    /\ UNCHANGED tkVars

\* --------------------------------------------------- executor.map, join
\* (The futures consumed from the other end of the list.)
NextIndexReversed == Len(futures) - Len(collected)

\* The future whose result list(executor.map(...)) takes next: the futures
\* are consumed in submission order.
NextIndex == Len(collected) + 1

\* (A result that never raises: a failed call yields its future's default.)
ResultRaisesNever(i) == FALSE

\* Future.result() raises the exception the call ended with.
ResultRaises(i) == futures[i].exc # NoException

\* list() takes the next result; after the last one the with block is left
\* and shutdown(wait=True) begins.
CollectResult ==
    /\ phase = "collect"
    /\ futures[NextIndex].state = "finished"
    /\ ~ResultRaises(NextIndex)
    /\ collected' = Append(collected, futures[NextIndex].value)
    /\ phase' = IF Len(collected') = Len(futures) THEN "joining" ELSE "collect"
    /\ UNCHANGED <<fib_numbers, startMethod, run, futures, workers, cache,
                   raised, outcome, stdout>>
    /\ UNCHANGED tkVars

\* The next result raises: the exception leaves list(), the futures not yet
\* started are cancelled (a process pool keeps those already in its call
\* queue), and the with block is left.
CollectRaise ==
    /\ phase = "collect"
    /\ futures[NextIndex].state = "finished"
    /\ ResultRaises(NextIndex)
    /\ raised' = futures[NextIndex].exc
    /\ \E k \in 0..(IF Strategy(run) = "process"
                    THEN Min(Cardinality(Pending), CallQueueSize) ELSE 0) :
          futures' = [i \in 1..Len(futures) |->
                         IF i \in Pending \ FirstPending(k)
                         THEN [futures[i] EXCEPT !.state = "cancelled"]
                         ELSE futures[i]]
    /\ phase' = "joining"
    /\ UNCHANGED <<fib_numbers, startMethod, run, workers, cache, collected,
                   outcome, stdout>>
    /\ UNCHANGED tkVars

\* After shutdown a worker with nothing left to take exits.
WorkerExit(w) ==
    /\ phase = "joining"
    /\ workers[w].status = "idle"
    /\ Pending = {}
    /\ FirstOfItsKind(w)
    /\ workers' = [workers EXCEPT ![w].status = "exited"]
    /\ UNCHANGED <<fib_numbers, startMethod, run, phase, futures, cache,
                   collected, raised, outcome, stdout>>
    /\ UNCHANGED tkVars

\* (shutdown(wait=False): the call does not wait for the workers.)
AllJoinedNoWait == TRUE

\* shutdown(wait=True) has joined every worker of the pool.
AllJoined == \A w \in Workers : workers[w].status \in {"notstarted", "exited"}

\* (A wrapper without its return statement: the caller gets None.)
WrapperReturnsNothing(result) == <<>>

\* measure_time's wrapper hands its caller what the wrapped function
\* returned: result = func(*args, **kwargs) ... return result.
WrapperReturn(result) == result

\* The strategy returns its list: measure_time takes end_time, prints the
\* elapsed time and returns the list, and main prints it.
ReturnResults ==
    /\ phase = "joining"
    /\ AllJoined
    /\ raised = NoException
    /\ outcome' = [status |-> "ok", results |-> WrapperReturn(collected),
                   error |-> NoException]
    /\ stdout' = stdout \o <<"elapsed", "results">>
    /\ phase' = IF run = NumRuns THEN "done" ELSE "ready"
    /\ UNCHANGED <<fib_numbers, startMethod, run, futures, workers, cache,
                   collected, raised>>
    /\ UNCHANGED tkVars

\* The strategy raises: the exception passes through measure_time's wrapper
\* (which has no try) and through main (which has none either), and the
\* interpreter ends with a traceback.
ReturnRaise ==
    /\ phase = "joining"
    /\ AllJoined
    /\ raised # NoException
    /\ outcome' = [status |-> "failed", results |-> <<>>, error |-> raised]
    /\ stdout' = Append(stdout, "traceback")
    /\ phase' = "crashed"
    /\ UNCHANGED <<fib_numbers, startMethod, run, futures, workers, cache,
                   collected, raised>>
    /\ UNCHANGED tkVars

Next ==
    \/ MainCall
    \/ \E w \in Workers : WorkerTake(w)
    \/ \E w \in Workers : NaiveRun(w)
    \/ \E w \in Workers : MemoLookup(w)
    \/ \E w \in Workers : MemoStore(w)
    \/ \E w \in Workers : MemoCall(w)
    \/ \E w \in Workers : WorkerCrash(w)
    \/ CollectResult
    \/ CollectRaise
    \/ \E w \in Workers : WorkerExit(w)
    \/ ReturnResults
    \/ ReturnRaise

\* main(), from its first run.
Spec == Init /\ [][Next]_vars

\* The strategies called on their own: a caller that starts a fresh
\* interpreter at any of main's four calls.
InitCall ==
    /\ fib_numbers \in Workloads
    /\ startMethod = "unset"
    /\ run \in 0..(NumRuns - 1)
    /\ phase = "ready"
    /\ futures = <<>>
    /\ workers = [w \in Workers |-> NotStarted]
    /\ cache = EmptyCache
    /\ collected = <<>>
    /\ raised = NoException
    /\ outcome = NoOutcome
    /\ stdout = <<>>
    /\ DrawingAppInit
    /\ ReactionGameInit

SpecCall == InitCall /\ [][Next]_vars

TypeOK ==
    /\ fib_numbers \in Workloads
    /\ run \in 0..NumRuns
    /\ phase \in {"ready", "collect", "joining", "done", "crashed"}
    /\ Len(futures) \in {0, Len(fib_numbers)}
    /\ \A w \in Workers : Len(workers[w].stack) <= RecursionLimit + 1
    /\ outcome.status \in {"none", "ok", "failed"}

\* ================================================================ claims
\* The decorated call of the current run has returned to main.
Returned == outcome # NoOutcome

FutureIds == 1..Len(futures)

\* C1: a run that returns successfully returns a list as long as the input
\* whose i-th element is compute(input[i]), for both strategies and whatever
\* order the workers finish in.
C1_ResultsInInputOrder ==
    outcome.status = "ok" =>
        /\ Len(outcome.results) = Len(fib_numbers)
        /\ \A i \in 1..Len(fib_numbers) :
               outcome.results[i] = Fib(fib_numbers[i])

\* A memoized run has returned two different results although its first task
\* started only after a later one had finished.
C1_Witness ==
    /\ Returned
    /\ Memo(run)
    /\ outcome.status = "ok"
    /\ Len(futures) >= 2
    /\ futures[1].late
    /\ outcome.results[1] # outcome.results[2]

\* C2: for every n >= 0 a fibonacci_memo call returns what fibonacci_naive
\* returns, whatever the cache held when it started and whatever the other
\* workers do to the cache meanwhile: every finished task and every nested
\* call about to return holds the naive value.
C2_MemoEqualsNaive ==
    Memo(run) =>
        /\ \A i \in FutureIds :
               (/\ futures[i].state = "finished"
                /\ futures[i].exc = NoException
                /\ futures[i].n >= 0)
               => futures[i].value = fibonacci_naive(futures[i].n, 1).val
        /\ \A w \in Workers : \A d \in 1..Len(workers[w].stack) :
               (workers[w].stack[d].pc = "store" /\ workers[w].stack[d].n >= 0)
               => workers[w].stack[d].acc
                      = fibonacci_naive(workers[w].stack[d].n, 1).val

\* A thread's call of fibonacci_memo(MaxN) missed, ran the body and finished
\* while another thread was inside fibonacci_memo on the same cache.
C2_Witness ==
    /\ run = 2
    /\ \E i \in FutureIds : \E w \in Workers :
           /\ futures[i].state = "finished"
           /\ futures[i].n >= 2
           /\ ~futures[i].hit
           /\ futures[i].exc = NoException
           /\ workers[w].status = "busy"
           /\ Len(workers[w].stack) >= 2

\* C3: when the strategy call has returned (or raised) to its caller, every
\* task it dispatched has finished or was cancelled and every worker of its
\* pool has terminated.
C3_JoinedBeforeReturn ==
    Returned =>
        /\ \A w \in Workers : workers[w].status \in {"notstarted", "exited"}
        /\ \A i \in FutureIds : futures[i].state \in {"finished", "cancelled"}

\* A run has raised to main, and a task submitted after the failing one was
\* still run to its end first.
C3_Witness ==
    /\ Returned
    /\ outcome.status = "failed"
    /\ \E i, j \in FutureIds :
           /\ i < j
           /\ futures[i].exc # NoException
           /\ futures[j].state = "finished"

\* C4: a run whose input list holds a negative value is rejected with
\* InvalidInput before dispatch: no worker is created, no task runs and no
\* result list is returned.
C4_NegativeInputRejected ==
    (\E i \in 1..Len(fib_numbers) : fib_numbers[i] < 0) =>
        /\ \A w \in Workers : workers[w].status = "notstarted"
        /\ \A i \in FutureIds : futures[i].state = "pending"
        /\ Returned =>
               /\ outcome.status = "failed"
               /\ outcome.error.type = "InvalidInput"

\* C5: if any task of a run raised, the run ends in failure: it returns no
\* result list, and main prints none for it.
C5_FailedTaskFailsRun ==
    (Returned /\ \E i \in FutureIds : futures[i].exc # NoException) =>
        /\ outcome.status = "failed"
        /\ outcome.results = <<>>
        /\ \A k \in 1..Len(stdout) : stdout[k] # "results"

\* A run has failed although one of its tasks had finished with a result.
C5_Witness ==
    /\ Returned
    /\ outcome.status = "failed"
    /\ \E i \in FutureIds :
           futures[i].state = "finished" /\ futures[i].exc = NoException

\* C6: the failure a run propagates names the failing task's index in the
\* input list (counted from 0) and its input value.
C6_FailureNamesTask ==
    outcome.status = "failed" =>
        \E i \in 1..Len(fib_numbers) :
            /\ <<"index", i - 1>> \in outcome.error.info
            /\ <<"value", fib_numbers[i]>> \in outcome.error.info

\* C7: a failed run never keeps a later configured run from starting: the
\* session ends only once every run has been started.
C7_SessionContinuesAfterFailure ==
    phase \in {"done", "crashed"} => run = NumRuns

\* C8: every run starts with an empty memoization cache: nothing written
\* during one run is there when a later run starts.
C8_CacheEmptyAtRunStart ==
    phase = "ready" => cache = EmptyCache

\* C9: in the memoized process-pool run, a worker process's first lookup of
\* its task's n is a hit only if that process computed n itself.
C9_ProcessHitsAreOwn ==
    (run = NumRuns /\ Strategy(run) = "process" /\ Memo(run)) =>
        \A i \in FutureIds :
            futures[i].hit => futures[i].n \in workers[futures[i].by].own

\* C10 as stated: in the memoized thread-pool run over three equal inputs
\* (scenario 2) every finished result is F(n) and every invocation after the
\* first is a hit.
C10_LaterInvocationsAlwaysHit ==
    (run = 2 /\ fib_numbers = Scenario2) =>
        \A i \in FutureIds :
            futures[i].state = "finished" =>
                /\ futures[i].value = Fib(MaxN)
                /\ i >= 2 => futures[i].hit

\* C10 amended: in the memoized thread-pool run over three equal inputs every
\* finished result is F(n), and an invocation that starts after another one
\* has finished is a hit (invocations that overlap may each miss).
C10_InvocationAfterFinishedHits ==
    (run = 2 /\ fib_numbers = Scenario2) =>
        \A i \in FutureIds :
            futures[i].state = "finished" =>
                /\ futures[i].value = Fib(MaxN)
                /\ futures[i].late => futures[i].hit

\* Over three equal inputs two threads both missed and the third invocation, started
\* after one of them had finished, was a hit.
C10_Witness ==
    /\ run = 2
    /\ fib_numbers = Scenario2
    /\ \A i \in FutureIds : futures[i].state = "finished"
    /\ ~futures[1].hit
    /\ ~futures[2].hit
    /\ futures[3].late
    /\ futures[3].hit

\* ------------------------------------------------- the cache under threads
\* The memoized thread-pool run: the worker threads share the parent's cache.
ThreadMemoRun == Strategy(run) = "thread" /\ Memo(run)

\* In this step worker w takes the lookup of key k.
LooksUp(w, k) ==
    /\ workers[w].status = "busy"
    /\ Top(workers[w].stack).pc = "lookup"
    /\ Top(workers[w].stack).n = k
    /\ workers'[w] # workers[w]

\* In this step the lookup worker w takes is answered with v without running
\* the body: the task ends with v, or the calling frame goes on with v.
AnsweredWith(w, v) ==
    LET st == workers[w].stack
        d == Len(st)
        i == workers[w].task
    IN  IF d = 1
        THEN /\ workers'[w].status = "idle"
             /\ futures'[i].state = "finished"
             /\ futures'[i].exc = NoException
             /\ futures'[i].value = v
        ELSE /\ Len(workers'[w].stack) >= d - 1
             /\ workers'[w].stack[d - 1].pc = (IF st[d - 1].pc = "call1"
                                               THEN "call2" ELSE "store")
             /\ workers'[w].stack[d - 1].acc = (IF st[d - 1].pc = "call1"
                                                THEN v ELSE st[d - 1].acc + v)

\* C11: while worker threads read and write the shared cache concurrently no
\* entry is lost or corrupted: an entry that is there stays there and holds
\* F(n) after every step of any worker, and a lookup of a stored key n by any
\* worker is answered with F(n).
C11_StoredEntriesFound ==
    [][ThreadMemoRun =>
          /\ \A k \in DOMAIN cache :
                 /\ k \in DOMAIN cache'
                 /\ k >= 0 => cache'[k] = Fib(k)
          /\ \A w \in Workers : \A k \in DOMAIN cache :
                 (k >= 0 /\ LooksUp(w, k)) => AnsweredWith(w, Fib(k))]_vars

\* One thread is about to store a key the cache does not hold while another,
\* inside a nested call, is about to look up a different key that is stored.
C11_Witness ==
    /\ ThreadMemoRun
    /\ \E a, b \in Workers :
           /\ a # b
           /\ workers[a].status = "busy"
           /\ workers[b].status = "busy"
           /\ Top(workers[a].stack).pc = "store"
           /\ Top(workers[a].stack).n \notin DOMAIN cache
           /\ Len(workers[b].stack) >= 2
           /\ Top(workers[b].stack).pc = "lookup"
           /\ Top(workers[b].stack).n \in DOMAIN cache
           /\ Top(workers[b].stack).n # Top(workers[a].stack).n

\* C12: within a cache scope (the parent's cache; a worker process's cache
\* for as long as the pool lives) a written key is never removed and its
\* value never changes, whoever writes it again.
C12_EntriesNeverChange ==
    [][/\ \A k \in DOMAIN cache :
              k \in DOMAIN cache' /\ cache'[k] = cache[k]
       /\ run' = run =>
              \A w \in Workers : \A k \in DOMAIN workers[w].cache :
                  /\ k \in DOMAIN workers'[w].cache
                  /\ workers'[w].cache[k] = workers[w].cache[k]]_vars

\* A thread that missed is about to store a key that another thread has
\* stored meanwhile (a redundant concurrent miss).
C12_Witness ==
    /\ ThreadMemoRun
    /\ \E w \in Workers :
           /\ workers[w].status = "busy"
           /\ Top(workers[w].stack).pc = "store"
           /\ Top(workers[w].stack).n \in DOMAIN cache
           /\ Top(workers[w].stack).n >= 2

\* ------------------------------------------------------ the timing wrapper
\* C13: the timing wrapper is transparent: when the decorated call ends, its
\* caller gets exactly the list the strategy returned, or the exception the
\* strategy raised, and the input list, the cache, the futures and the
\* workers are as the strategy left them.
C13_WrapperTransparent ==
    [][(outcome = NoOutcome /\ outcome' # NoOutcome) =>
          /\ raised = NoException =>
                 outcome' = [status |-> "ok", results |-> collected,
                             error |-> NoException]
          /\ raised # NoException =>
                 outcome'.status = "failed" /\ outcome'.error = raised
          /\ fib_numbers' = fib_numbers
          /\ cache' = cache
          /\ futures' = futures
          /\ workers' = workers]_vars

\* The decorated memoized process-pool strategy has returned a list of two
\* results or more.
C13_Witness ==
    /\ Returned
    /\ Strategy(run) = "process"
    /\ Memo(run)
    /\ outcome.status = "ok"
    /\ Len(outcome.results) >= 2

\* C14: the wrapper reports the elapsed time of every strategy invocation,
\* whether it returned or raised.
C14_ElapsedAlwaysReported ==
    Returned => \E k \in 1..Len(stdout) : stdout[k] = "elapsed"

\* ------------------------------------------------------------ termination
ProcessRuns == {r \in 1..NumRuns : Strategy(r) = "process"}

\* The process-pool strategies called on their own: a caller that starts a
\* fresh interpreter at the first of main's process-pool calls.
InitProcess ==
    /\ InitCall
    /\ run + 1 \in ProcessRuns
    /\ \A r \in ProcessRuns : run < r

\* What happens in a process-pool run: no worker thread steps through the
\* shared cache.
NextProcess ==
    \/ MainCall
    \/ \E w \in Workers : WorkerTake(w)
    \/ \E w \in Workers : NaiveRun(w)
    \/ \E w \in Workers : MemoCall(w)
    \/ \E w \in Workers : WorkerCrash(w)
    \/ CollectResult
    \/ CollectRaise
    \/ \E w \in Workers : WorkerExit(w)
    \/ ReturnResults
    \/ ReturnRaise

\* The host's scheduler lets a process or thread that can take a step take
\* one: the main thread, the pool's manager and the worker processes all run.
SpecProcessFair == InitProcess /\ [][NextProcess]_vars /\ WF_vars(NextProcess)

\* The first slot that holds an exception, 0 when none does.
FirstFailed ==
    IF \E i \in FutureIds : futures[i].exc # NoException
    THEN CHOOSE i \in FutureIds :
             /\ futures[i].exc # NoException
             /\ \A j \in 1..(i - 1) : futures[j].exc = NoException
    ELSE 0

\* C15: a process-pool run never hangs: once called it eventually returns to
\* its caller, also when a worker process raised or died in its task, and
\* then with the error held by that task's slot (of several, the first).
C15_ProcessRunReturns ==
    \A r \in ProcessRuns :
        (run = r /\ phase \in {"collect", "joining"})
            ~> (/\ run = r
                /\ Returned
                /\ FirstFailed # 0 =>
                       /\ outcome.status = "failed"
                       /\ outcome.error = futures[FirstFailed].exc)

\* A process-pool run has raised BrokenProcessPool to its caller: a worker
\* process had died.
C15_Witness ==
    /\ Strategy(run) = "process"
    /\ Returned
    /\ outcome.error = BrokenProcessPool

\* C16: two calls of the same variant with the same n in the same cache scope
\* return the same value, hit or not: equal inputs of a run have equal
\* results, and a memoized result is the value the cache holds for a later
\* hit.
C16_SameInputSameValue ==
    /\ \A i, j \in FutureIds :
           (/\ futures[i].n = futures[j].n
            /\ futures[i].state = "finished" /\ futures[i].exc = NoException
            /\ futures[j].state = "finished" /\ futures[j].exc = NoException)
           => futures[i].value = futures[j].value
    /\ ThreadMemoRun =>
           \A i \in FutureIds :
               (futures[i].state = "finished" /\ futures[i].exc = NoException)
               => /\ futures[i].n \in DOMAIN cache
                  /\ cache[futures[i].n] = futures[i].value

\* One worker process has run two calls with the same n: the first computed
\* it, the second was a hit.
C16_Witness ==
    /\ Strategy(run) = "process"
    /\ Memo(run)
    /\ \E i, j \in FutureIds :
           /\ i < j
           /\ futures[i].n = futures[j].n
           /\ futures[i].n >= 2
           /\ futures[i].by = futures[j].by
           /\ futures[i].state = "finished" /\ ~futures[i].hit
           /\ futures[j].state = "finished" /\ futures[j].hit

\* ============================================================ src/draw.py
\* The state option of a line item: "" as create_line leaves it, "hidden"
\* and "normal" as undo and redo set it.
CreatedState == ""

\* An item is drawn unless its state is hidden.
Visible(st) == st # "hidden"

\* canvas.itemconfig(item_id, state=st) for every item of a stroke.
itemconfig(c, stroke, st) ==
    [i \in 1..Len(c) |->
        IF \E k \in 1..Len(stroke) : stroke[k] = i THEN st ELSE c[i]]

\* (A stroke put under the stack instead of on top of it.)
PushUnder(stack, stroke) == <<stroke>> \o stack

\* list.append.
Push(stack, stroke) == Append(stack, stroke)

\* list.pop() leaves all but the last.
Pop(stack) == SubSeq(stack, 1, Len(stack) - 1)

\* (A release that keeps the redo stack.)
KeptStack(stack) == stack

\* list.clear().
ClearedStack(stack) == <<>>

\* (An undo that leaves the items drawn.)
UndoStateNormal == "normal"

\* The state undo gives a stroke's items.
UndoState == "hidden"

\* (A redo that leaves the items hidden.)
RedoStateHidden == "hidden"

\* The state redo gives a stroke's items.
RedoState == "normal"

\* What undo and redo read and write.
App == [undo_stack |-> undo_stack, redo_stack |-> redo_stack, canvas |-> canvas]

\* DrawingApp.undo on a.
undo(a) ==
    IF a.undo_stack = <<>> THEN a
    ELSE LET stroke == Top(a.undo_stack)
         IN  [undo_stack |-> Pop(a.undo_stack),
              canvas |-> itemconfig(a.canvas, stroke, UndoState),
              redo_stack |-> Push(a.redo_stack, stroke)]

\* DrawingApp.redo on a.
redo(a) ==
    IF a.redo_stack = <<>> THEN a
    ELSE LET stroke == Top(a.redo_stack)
         IN  [redo_stack |-> Pop(a.redo_stack),
              canvas |-> itemconfig(a.canvas, stroke, RedoState),
              undo_stack |-> Push(a.undo_stack, stroke)]

\* <ButtonPress-1> at x: Tk delivers it when the button is up.
on_button_press(x) ==
    /\ last_x = None
    /\ current_stroke_item_ids' = <<>>
    /\ last_x' = Some(x)
    /\ UNCHANGED <<undo_stack, redo_stack, canvas>>
    /\ UNCHANGED <<benchVars, gameVars>>

\* <B1-Motion> to x: Tk delivers it while the button is down.
draw(x) ==
    /\ last_x # None
    /\ Len(canvas) < MaxItems
    /\ IF last_x # None
       THEN /\ canvas' = Append(canvas, CreatedState)
            /\ current_stroke_item_ids' =
                   Append(current_stroke_item_ids, Len(canvas) + 1)
       ELSE UNCHANGED <<canvas, current_stroke_item_ids>>
    /\ last_x' = Some(x)
    /\ UNCHANGED <<undo_stack, redo_stack>>
    /\ UNCHANGED <<benchVars, gameVars>>

\* <ButtonRelease-1>: Tk delivers it when the button was down.
on_button_release ==
    /\ last_x # None
    /\ IF current_stroke_item_ids # <<>>
       THEN /\ undo_stack' = Push(undo_stack, current_stroke_item_ids)
            /\ current_stroke_item_ids' = <<>>
       ELSE UNCHANGED <<undo_stack, current_stroke_item_ids>>
    /\ redo_stack' = ClearedStack(redo_stack)
    /\ last_x' = None
    /\ UNCHANGED canvas
    /\ UNCHANGED <<benchVars, gameVars>>

\* <Control-z>, at any time, a stroke in progress or not.
handle_undo_key ==
    /\ undo_stack' = undo(App).undo_stack
    /\ redo_stack' = undo(App).redo_stack
    /\ canvas' = undo(App).canvas
    /\ UNCHANGED <<last_x, current_stroke_item_ids>>
    /\ UNCHANGED <<benchVars, gameVars>>

\* <Control-Shift-z> or <Control-Z>, at any time.
handle_redo_key ==
    /\ undo_stack' = redo(App).undo_stack
    /\ redo_stack' = redo(App).redo_stack
    /\ canvas' = redo(App).canvas
    /\ UNCHANGED <<last_x, current_stroke_item_ids>>
    /\ UNCHANGED <<benchVars, gameVars>>

NextDraw ==
    \/ \E x \in Coords : on_button_press(x)
    \/ \E x \in Coords : draw(x)
    \/ on_button_release
    \/ handle_undo_key
    \/ handle_redo_key

\* The drawing app on its own: the benchmark is not run.
InitDraw == Init /\ fib_numbers = <<>>

SpecDraw == InitDraw /\ [][NextDraw]_vars

\* The ids of a stroke's items.
ItemsOf(stroke) == {stroke[k] : k \in 1..Len(stroke)}

StrokesOf(stack) == {stack[k] : k \in 1..Len(stack)}

\* C17: a release after a stroke that drew at least one segment pushes that
\* stroke on top of the undo stack and empties the redo stack; a release
\* after a press with no motion leaves the undo stack as it is.
C17_ReleasePushesStroke ==
    [][(last_x # None /\ last_x' = None) =>
          IF current_stroke_item_ids # <<>>
          THEN /\ undo_stack' = Append(undo_stack, current_stroke_item_ids)
               /\ redo_stack' = <<>>
          ELSE undo_stack' = undo_stack]_vars

\* The button is up, the undo stack holds two strokes, and a stroke that was
\* undone is on neither stack: a release has emptied the redo stack.
C17_Witness ==
    /\ last_x = None
    /\ Len(undo_stack) >= 2
    /\ redo_stack = <<>>
    /\ \E i \in 1..Len(canvas) :
           /\ ~Visible(canvas[i])
           /\ \A st \in StrokesOf(undo_stack) : i \notin ItemsOf(st)

\* C19: no stroke is on both stacks, every item of a stroke on the undo
\* stack is visible and every item of a stroke on the redo stack is hidden,
\* a stroke in progress or not.
C19_StacksDisjointAndShown ==
    /\ StrokesOf(undo_stack) \cap StrokesOf(redo_stack) = {}
    /\ \A st \in StrokesOf(undo_stack) : \A i \in ItemsOf(st) : Visible(canvas[i])
    /\ \A st \in StrokesOf(redo_stack) : \A i \in ItemsOf(st) : ~Visible(canvas[i])

\* A stroke is in progress while both stacks hold a stroke.
C19_Witness ==
    /\ last_x # None
    /\ current_stroke_item_ids # <<>>
    /\ undo_stack # <<>>
    /\ redo_stack # <<>>

\* Which items are drawn.
Shown(c) == [i \in 1..Len(c) |-> Visible(c[i])]

\* C20: undo and then redo gives back the undo stack, the redo stack and
\* every item's visibility (when there was a stroke to undo); undo on an
\* empty undo stack and redo on an empty redo stack change nothing.
C20_UndoRedoRestores ==
    /\ undo_stack # <<>> =>
           /\ redo(undo(App)).undo_stack = undo_stack
           /\ redo(undo(App)).redo_stack = redo_stack
           /\ Shown(redo(undo(App)).canvas) = Shown(canvas)
    /\ undo_stack = <<>> => undo(App) = App
    /\ redo_stack = <<>> => redo(App) = App

\* Both stacks hold a stroke, and the newest stroke's items are as they were
\* created.
C20_Witness ==
    /\ undo_stack # <<>>
    /\ redo_stack # <<>>
    /\ \A i \in ItemsOf(Top(undo_stack)) : canvas[i] = CreatedState

\* =================================================== src/reaction_game.py
\* The characters of the keys, in the order of the key buttons, and what the
\* keyboard sends for them with Shift held.
KeyChars == <<"a", "s", "d", "f", "j", "k", "l", ";">>

ShiftChars == <<"A", "S", "D", "F", "J", "K", "L", ":">>

\* key_map: the character of each key of the game to its button's index.
key_map == [c \in {KeyChars[i + 1] : i \in Keys} |->
               CHOOSE i \in Keys : KeyChars[i + 1] = c]

\* str.lower() on the characters a <KeyPress> may carry.
lower(ch) ==
    IF \E i \in 1..7 : ShiftChars[i] = ch
    THEN KeyChars[CHOOSE i \in 1..7 : ShiftChars[i] = ch]
    ELSE ch

\* event.char of the key presses: the game's keys, plain and with Shift, a
\* letter that is no key of the game, and the empty string of a modifier.
EventChars ==
    DOMAIN key_map \cup {ShiftChars[i + 1] : i \in Keys} \cup {"x", ""}

Label(text, lv) == [text |-> text, level |-> lv]

\* (Every level as long as the first.)
LevelLengthFlat(lv) == LightsPerLevel

\* lights_per_level + (level - 1) * lights_increment.
LevelLength(lv) == LightsPerLevel + (lv - 1) * LightsIncrement

\* (A callback scheduled twice.)
afterTwice(callback) == [timers EXCEPT ![callback] = @ + 2]

\* master.after(ms, callback).
after(callback) == [timers EXCEPT ![callback] = @ + 1]

\* (A step that skips a key of the sequence.)
AdvanceTwo(i) == i + 2

\* reset_key: self.current_index += 1.
Advance(i) == i + 1

\* The scheduled callback runs.
Fired(callback) == [timers EXCEPT ![callback] = @ - 1]

\* ReactionGame.start_game, called with self.level = lv and the info label
\* showing label, on the timers ts.
start_game(lv, label, ts) ==
    IF is_game_running
    THEN /\ info_label' = label
         /\ timers' = ts
         /\ UNCHANGED <<sequence_length, sequence, current_index,
                        is_game_running, next_level_button, lit, answered>>
    ELSE /\ info_label' = Label("Get ready... Level", lv)
         /\ is_game_running' = TRUE
         /\ current_index' = 0
         /\ sequence_length' = LevelLength(lv)
         /\ next_level_button' = "disabled"
         /\ sequence' \in [1..LevelLength(lv) -> Keys]
         /\ timers' = [ts EXCEPT !["light_next_key"] = @ + 1]
         /\ lit' = <<>>
         /\ answered' = <<>>

\* ReactionGame.finish_level.
finish_level ==
    /\ is_game_running' = FALSE
    /\ info_label' = Label("complete!", level)
    /\ next_level_button' = "normal"
    /\ key_buttons' = [i \in 1..NumKeys |-> "gray"]

\* ReactionGame.light_next_key with self.current_index = idx.
light_next_key(idx) ==
    IF idx >= sequence_length
    THEN /\ finish_level
         /\ UNCHANGED <<waiting_for_click, lit>>
    ELSE /\ key_buttons' = [i \in 1..NumKeys |->
                               IF i = sequence[idx + 1] + 1 THEN "red" ELSE "gray"]
         /\ waiting_for_click' = TRUE
         /\ lit' = Append(lit, sequence[idx + 1])
         /\ UNCHANGED <<is_game_running, info_label, next_level_button>>

\* The Start button is clicked.
StartClick ==
    /\ start_game(level, info_label, timers)
    /\ UNCHANGED <<level, waiting_for_click, key_buttons>>
    /\ UNCHANGED <<benchVars, drawVars>>

\* The Next Level button is clicked: it must be enabled.
next_level ==
    /\ next_level_button = "normal"
    /\ level < MaxLevel
    /\ level' = level + 1
    /\ start_game(level + 1, Label("Starting Level", level + 1), timers)
    /\ UNCHANGED <<waiting_for_click, key_buttons>>
    /\ UNCHANGED <<benchVars, drawVars>>

\* The callback start_game scheduled runs, 1500 ms later.
LightNextKeyTimer ==
    /\ timers["light_next_key"] > 0
    /\ timers' = Fired("light_next_key")
    /\ light_next_key(current_index)
    /\ UNCHANGED <<level, sequence_length, sequence, current_index, answered>>
    /\ UNCHANGED <<benchVars, drawVars>>

\* A <KeyPress> with event.char = ch.
on_key_press(ch) ==
    /\ IF ~is_game_running \/ ~waiting_for_click
       THEN UNCHANGED gameVars
       ELSE IF lower(ch) \in DOMAIN key_map /\ current_index < Len(sequence)
       THEN LET pressed_idx == key_map[lower(ch)]
                correct_idx == sequence[current_index + 1]
            IN  IF pressed_idx = correct_idx
                THEN /\ key_buttons' = [key_buttons EXCEPT ![correct_idx + 1] = "green"]
                     /\ waiting_for_click' = FALSE
                     /\ timers' = after("reset_key")
                     /\ answered' = Append(answered, pressed_idx)
                     /\ UNCHANGED <<level, sequence_length, sequence,
                                    current_index, is_game_running, info_label,
                                    next_level_button, lit>>
                ELSE /\ info_label' = Label("Wrong key! Try again...", 0)
                     /\ UNCHANGED <<level, sequence_length, sequence,
                                    current_index, is_game_running,
                                    waiting_for_click, key_buttons,
                                    next_level_button, timers, lit, answered>>
       ELSE UNCHANGED gameVars
    /\ UNCHANGED <<benchVars, drawVars>>

\* The callback on_key_press scheduled runs, 300 ms later: reset_key. (Were
\* current_index not below the sequence's length, sequence[current_index]
\* would raise IndexError and Tk would drop the callback.)
ResetKeyTimer ==
    /\ timers["reset_key"] > 0
    /\ IF current_index < Len(sequence)
       THEN /\ current_index' = Advance(current_index)
            /\ timers' = Fired("reset_key")
            /\ light_next_key(Advance(current_index))
       ELSE /\ timers' = Fired("reset_key")
            /\ UNCHANGED <<current_index, key_buttons, waiting_for_click, lit,
                           is_game_running, info_label, next_level_button>>
    /\ UNCHANGED <<level, sequence_length, sequence, answered>>
    /\ UNCHANGED <<benchVars, drawVars>>

NextGame ==
    \/ StartClick
    \/ next_level
    \/ LightNextKeyTimer
    \/ \E ch \in EventChars : on_key_press(ch)
    \/ ResetKeyTimer

\* The reaction game on its own: the benchmark is not run.
InitGame == Init /\ fib_numbers = <<>>

SpecGame == InitGame /\ [][NextGame]_vars

\* The label reports a level complete.
ReportedComplete == info_label.text = "complete!"

\* The press of ch is not the press of the lit key.
WrongPress(ch) ==
    \/ lower(ch) \notin DOMAIN key_map
    \/ key_map[lower(ch)] # sequence[current_index + 1]

\* C18: level L is reported complete only after exactly
\* lights_per_level + lights_increment * (L - 1) keys were lit and each was
\* answered by the press of that key, in the sequence's order; a press of
\* another key of the game or of no key of the game while a key is lit
\* leaves current_index and the lit key unchanged and schedules nothing.
C18_CompleteAfterAllKeysAnswered ==
    /\ [](ReportedComplete =>
             /\ Len(sequence) = LightsPerLevel + LightsIncrement * (info_label.level - 1)
             /\ info_label.level = level
             /\ lit = sequence
             /\ answered = sequence)
    /\ [][\A ch \in EventChars :
              (/\ is_game_running
               /\ waiting_for_click
               /\ WrongPress(ch)
               /\ on_key_press(ch))
              => /\ current_index' = current_index
                 /\ key_buttons' = key_buttons
                 /\ timers' = timers
                 /\ waiting_for_click' = waiting_for_click]_vars

\* The highest level is reported complete, and its keys were not all the
\* same.
C18_Witness ==
    /\ ReportedComplete
    /\ level = MaxLevel
    /\ \E i, j \in 1..Len(sequence) : sequence[i] # sequence[j]

\* The callbacks scheduled and not yet run.
PendingTimers == timers["light_next_key"] + timers["reset_key"]

\* on_key_press reads sequence[current_index] on a press of a key of the
\* game while a key is lit, reset_key whenever it runs.
ReadsSequence ==
    \/ is_game_running /\ waiting_for_click
    \/ timers["reset_key"] > 0

\* C21: whatever the order of Start clicks, Next Level clicks, key presses
\* and the two timer callbacks, 0 <= current_index <= sequence_length, and
\* where on_key_press or reset_key reads sequence[current_index] the index is
\* below sequence_length and inside the sequence.
C21_IndexInRange ==
    /\ 0 <= current_index
    /\ current_index <= sequence_length
    /\ ReadsSequence =>
           /\ current_index < sequence_length
           /\ current_index + 1 \in DOMAIN sequence

\* reset_key is about to read the last key of the highest level's sequence.
C21_Witness ==
    /\ level = MaxLevel
    /\ timers["reset_key"] > 0
    /\ current_index = sequence_length - 1

\* C22: at most one level is in progress: the Next Level button is enabled
\* only while no level is running, at most one timer callback is pending,
\* a Start click while a level is running changes nothing, and no step
\* taken while a level is running changes level or sequence.
C22_OneLevelAtATime ==
    /\ [](/\ next_level_button = "normal" => ~is_game_running
          /\ PendingTimers <= 1
          /\ is_game_running => ~ENABLED <<StartClick>>_gameVars)
    /\ [][is_game_running =>
              /\ level' = level
              /\ sequence' = sequence]_vars

\* A level reached by Next Level is running, with its first key still to be
\* lit by the pending timer.
C22_Witness ==
    /\ level = MaxLevel
    /\ is_game_running
    /\ timers["light_next_key"] = 1
    /\ next_level_button = "disabled"

====
